---- MODULE Spec2Model ----
(***************************************************************************)
(* SpacyMagic, the worker-local lazily initialised store of spaCy models   *)
(* of sentiment.ipynb:                                                     *)
(*                                                                         *)
(*     class SpacyMagic(object):                                           *)
(*         _spacys = {}                                                    *)
(*         @classmethod                                                    *)
(*         def get(cls, lang):                                             *)
(*             if lang not in cls._spacys:                                 *)
(*                 import spacy                                            *)
(*                 cls._spacys[lang] = spacy.load(lang)                    *)
(*             return cls._spacys[lang]                                    *)
(*                                                                         *)
(* Every worker process has its own class object and so its own _spacys.   *)
(* get takes no lock: a thread of the process can be preempted between the *)
(* membership test, the call of spacy.load, the item assignment and the    *)
(* lookup of the return statement, so each of these is one step.           *)
(***************************************************************************)
EXTENDS Integers, FiniteSets, Sequences, TLC

\* Bound: get calls begun, over all worker processes.
MaxCalls == 4

Procs == {"w1", "w2"}
Threads == {"t1", "t2"}
Keys == {"en", "fr"}

\* The thread that makes the calls of a single-threaded worker.
MainThread == "t1"

NoKey == "none"

\* "no object": an absent dictionary entry, an empty temporary, no result yet.
None == [tag |-> "None", id |-> 0, proc |-> "None"]

\* The outcome of a get that ended with the exception of spacy.load.
Raised == [tag |-> "Raised", id |-> 0, proc |-> "None"]

VARIABLES
    spacys,     \* spacys[p][k]: cls._spacys of process p, None when k is not in it
    pc,         \* pc[p][t]: where thread t of process p is inside get
    lang,       \* lang[p][t]: the argument of the current (or last) get of t
    tmp,        \* tmp[p][t]: the model spacy.load returned to the current (or last) get of t
    result,     \* result[p][t]: what the last finished get of t gave its caller
    loads,      \* loads[p][k]: invocations of spacy.load(k) in p
    built,      \* built[p][k]: invocations of spacy.load(k) in p that returned a model
    calls,      \* get calls begun so far, over all processes
    requested,  \* requested[p]: the keys get has been called with in p
    returned,   \* returned[p][k]: the objects get(k) has returned in p
    failedLast, \* failedLast[p]: keys whose most recently finished get raised
    afterFail   \* afterFail[p][t]: the current (or last) get of t began with its key in failedLast

vars == <<spacys, pc, lang, tmp, result, loads, built, calls, requested,
          returned, failedLast, afterFail>>

\* spacy.load(lang) when it succeeds: a new object each time, the n-th model
\* of language k built in process p.
spacy_load(p, k, n) == [tag |-> k, id |-> n, proc |-> p]

\* lang in cls._spacys
Contains(p, k) == spacys[p][k] # None

\* _spacys = {"en": spacy.load("en")}: the English model is loaded when the
\* class is created.
InitEager ==
    /\ spacys = [p \in Procs |-> [k \in Keys |->
                     IF k = "en" THEN spacy_load(p, "en", 1) ELSE None]]
    /\ pc = [p \in Procs |-> [t \in Threads |-> "idle"]]
    /\ lang = [p \in Procs |-> [t \in Threads |-> NoKey]]
    /\ tmp = [p \in Procs |-> [t \in Threads |-> None]]
    /\ result = [p \in Procs |-> [t \in Threads |-> None]]
    /\ loads = [p \in Procs |-> [k \in Keys |-> IF k = "en" THEN 1 ELSE 0]]
    /\ built = [p \in Procs |-> [k \in Keys |-> IF k = "en" THEN 1 ELSE 0]]
    /\ calls = 0
    /\ requested = [p \in Procs |-> {}]
    /\ returned = [p \in Procs |-> [k \in Keys |-> {}]]
    /\ failedLast = [p \in Procs |-> {}]
    /\ afterFail = [p \in Procs |-> [t \in Threads |-> FALSE]]

Init ==
    /\ spacys = [p \in Procs |-> [k \in Keys |-> None]]
    /\ pc = [p \in Procs |-> [t \in Threads |-> "idle"]]
    /\ lang = [p \in Procs |-> [t \in Threads |-> NoKey]]
    /\ tmp = [p \in Procs |-> [t \in Threads |-> None]]
    /\ result = [p \in Procs |-> [t \in Threads |-> None]]
    /\ loads = [p \in Procs |-> [k \in Keys |-> 0]]
    /\ built = [p \in Procs |-> [k \in Keys |-> 0]]
    /\ calls = 0
    /\ requested = [p \in Procs |-> {}]
    /\ returned = [p \in Procs |-> [k \in Keys |-> {}]]
    /\ failedLast = [p \in Procs |-> {}]
    /\ afterFail = [p \in Procs |-> [t \in Threads |-> FALSE]]

\* A worker whose only running thread is MainThread (a PySpark Python worker).
InitSeq ==
    /\ spacys = [p \in Procs |-> [k \in Keys |-> None]]
    /\ pc = [p \in Procs |-> [t \in Threads |-> IF t = MainThread THEN "idle" ELSE "off"]]
    /\ lang = [p \in Procs |-> [t \in Threads |-> NoKey]]
    /\ tmp = [p \in Procs |-> [t \in Threads |-> None]]
    /\ result = [p \in Procs |-> [t \in Threads |-> None]]
    /\ loads = [p \in Procs |-> [k \in Keys |-> 0]]
    /\ built = [p \in Procs |-> [k \in Keys |-> 0]]
    /\ calls = 0
    /\ requested = [p \in Procs |-> {}]
    /\ returned = [p \in Procs |-> [k \in Keys |-> {}]]
    /\ failedLast = [p \in Procs |-> {}]
    /\ afterFail = [p \in Procs |-> [t \in Threads |-> FALSE]]

\* On a miss the entry is created before spacy.load has run: the object
\* that is still to be built is published under lang.
GetCheckReserve(p, t, k) ==
    /\ pc[p][t] = "idle"
    /\ calls < MaxCalls
    /\ pc' = [pc EXCEPT ![p][t] = IF Contains(p, k) THEN "ret" ELSE "load"]
    /\ spacys' = [spacys EXCEPT ![p][k] =
                     IF Contains(p, k) THEN @ ELSE spacy_load(p, k, loads[p][k] + 1)]
    /\ lang' = [lang EXCEPT ![p][t] = k]
    /\ tmp' = [tmp EXCEPT ![p][t] = None]
    /\ calls' = calls + 1
    /\ requested' = [requested EXCEPT ![p] = @ \cup {k}]
    /\ afterFail' = [afterFail EXCEPT ![p][t] = k \in failedLast[p]]
    /\ UNCHANGED <<result, loads, built, returned, failedLast>>

\* get without the membership test: every call goes on to spacy.load.
GetCheckAlwaysLoad(p, t, k) ==
    /\ pc[p][t] = "idle"
    /\ calls < MaxCalls
    /\ pc' = [pc EXCEPT ![p][t] = "load"]
    /\ lang' = [lang EXCEPT ![p][t] = k]
    /\ tmp' = [tmp EXCEPT ![p][t] = None]
    /\ calls' = calls + 1
    /\ requested' = [requested EXCEPT ![p] = @ \cup {k}]
    /\ afterFail' = [afterFail EXCEPT ![p][t] = k \in failedLast[p]]
    /\ UNCHANGED <<spacys, result, loads, built, returned, failedLast>>

\* A worker with its threads running, the other worker not started.
InitOneWorker ==
    /\ spacys = [p \in Procs |-> [k \in Keys |-> None]]
    /\ pc = [p \in Procs |-> [t \in Threads |-> IF p = "w1" THEN "idle" ELSE "off"]]
    /\ lang = [p \in Procs |-> [t \in Threads |-> NoKey]]
    /\ tmp = [p \in Procs |-> [t \in Threads |-> None]]
    /\ result = [p \in Procs |-> [t \in Threads |-> None]]
    /\ loads = [p \in Procs |-> [k \in Keys |-> 0]]
    /\ built = [p \in Procs |-> [k \in Keys |-> 0]]
    /\ calls = 0
    /\ requested = [p \in Procs |-> {}]
    /\ returned = [p \in Procs |-> [k \in Keys |-> {}]]
    /\ failedLast = [p \in Procs |-> {}]
    /\ afterFail = [p \in Procs |-> [t \in Threads |-> FALSE]]

\* get(cls, lang) is entered with lang = k and evaluates
\* "if lang not in cls._spacys".
GetCheck(p, t, k) ==
    /\ pc[p][t] = "idle"
    /\ calls < MaxCalls
    /\ pc' = [pc EXCEPT ![p][t] = IF Contains(p, k) THEN "ret" ELSE "load"]
    /\ lang' = [lang EXCEPT ![p][t] = k]
    /\ tmp' = [tmp EXCEPT ![p][t] = None]
    /\ calls' = calls + 1
    /\ requested' = [requested EXCEPT ![p] = @ \cup {k}]
    /\ afterFail' = [afterFail EXCEPT ![p][t] = k \in failedLast[p]]
    /\ UNCHANGED <<spacys, result, loads, built, returned, failedLast>>

\* spacy.load("en") whatever lang is.
LoadOkFixedLang(p, t) ==
    /\ pc[p][t] = "load"
    /\ loads' = [loads EXCEPT ![p][lang[p][t]] = @ + 1]
    /\ built' = [built EXCEPT ![p][lang[p][t]] = @ + 1]
    /\ tmp' = [tmp EXCEPT ![p][t] = spacy_load(p, "en", loads'[p][lang[p][t]])]
    /\ pc' = [pc EXCEPT ![p][t] = "store"]
    /\ UNCHANGED <<spacys, lang, result, calls, requested, returned,
                   failedLast, afterFail>>

\* "import spacy" and the call spacy.load(lang) return a model.
LoadOk(p, t) ==
    /\ pc[p][t] = "load"
    /\ loads' = [loads EXCEPT ![p][lang[p][t]] = @ + 1]
    /\ built' = [built EXCEPT ![p][lang[p][t]] = @ + 1]
    /\ tmp' = [tmp EXCEPT ![p][t] = spacy_load(p, lang[p][t], loads'[p][lang[p][t]])]
    /\ pc' = [pc EXCEPT ![p][t] = "store"]
    /\ UNCHANGED <<spacys, lang, result, calls, requested, returned,
                   failedLast, afterFail>>

\* A get that catches the exception, records the failure under lang and
\* raises again.
LoadFailCached(p, t) ==
    /\ pc[p][t] = "load"
    /\ loads' = [loads EXCEPT ![p][lang[p][t]] = @ + 1]
    /\ spacys' = [spacys EXCEPT ![p][lang[p][t]] = Raised]
    /\ result' = [result EXCEPT ![p][t] = Raised]
    /\ failedLast' = [failedLast EXCEPT ![p] = @ \cup {lang[p][t]}]
    /\ pc' = [pc EXCEPT ![p][t] = "idle"]
    /\ UNCHANGED <<lang, tmp, built, calls, requested, returned, afterFail>>

\* "import spacy" or spacy.load(lang) raises; get has no handler, so the
\* exception leaves get before the item assignment.
LoadFail(p, t) ==
    /\ pc[p][t] = "load"
    /\ loads' = [loads EXCEPT ![p][lang[p][t]] = @ + 1]
    /\ result' = [result EXCEPT ![p][t] = Raised]
    /\ failedLast' = [failedLast EXCEPT ![p] = @ \cup {lang[p][t]}]
    /\ pc' = [pc EXCEPT ![p][t] = "idle"]
    /\ UNCHANGED <<spacys, lang, tmp, built, calls, requested, returned,
                   afterFail>>

\* _spacys is one dictionary shared by all worker processes.
StoreShared(p, t) ==
    /\ pc[p][t] = "store"
    /\ spacys' = [q \in Procs |-> [spacys[q] EXCEPT ![lang[p][t]] = tmp[p][t]]]
    /\ pc' = [pc EXCEPT ![p][t] = "ret"]
    /\ UNCHANGED <<lang, tmp, result, loads, built, calls, requested,
                   returned, failedLast, afterFail>>

\* The item assignment waits until no other thread of the process is at
\* its own item assignment.
StoreWaits(p, t) ==
    /\ pc[p][t] = "store"
    /\ \A u \in Threads \ {t} : pc[p][u] # "store"
    /\ spacys' = [spacys EXCEPT ![p][lang[p][t]] = tmp[p][t]]
    /\ pc' = [pc EXCEPT ![p][t] = "ret"]
    /\ UNCHANGED <<lang, tmp, result, loads, built, calls, requested,
                   returned, failedLast, afterFail>>

\* The model is kept in one slot for all languages.
StoreAllKeys(p, t) ==
    /\ pc[p][t] = "store"
    /\ spacys' = [spacys EXCEPT ![p] = [k \in Keys |-> tmp[p][t]]]
    /\ pc' = [pc EXCEPT ![p][t] = "ret"]
    /\ UNCHANGED <<lang, tmp, result, loads, built, calls, requested,
                   returned, failedLast, afterFail>>

\* The model is loaded but the item assignment is left out.
StoreSkipped(p, t) ==
    /\ pc[p][t] = "store"
    /\ pc' = [pc EXCEPT ![p][t] = "ret"]
    /\ UNCHANGED <<spacys, lang, tmp, result, loads, built, calls, requested,
                   returned, failedLast, afterFail>>

\* cls._spacys[lang] = <the model spacy.load returned>
Store(p, t) ==
    /\ pc[p][t] = "store"
    /\ spacys' = [spacys EXCEPT ![p][lang[p][t]] = tmp[p][t]]
    /\ pc' = [pc EXCEPT ![p][t] = "ret"]
    /\ UNCHANGED <<lang, tmp, result, loads, built, calls, requested,
                   returned, failedLast, afterFail>>

\* On a miss the freshly loaded model is returned from a local variable
\* instead of being read back from the dictionary.
ReturnTmp(p, t) ==
    /\ pc[p][t] = "ret"
    /\ result' = [result EXCEPT ![p][t] =
                     IF tmp[p][t] # None THEN tmp[p][t] ELSE spacys[p][lang[p][t]]]
    /\ returned' = [returned EXCEPT ![p][lang[p][t]] = @ \cup {result'[p][t]}]
    /\ failedLast' = [failedLast EXCEPT ![p] = @ \ {lang[p][t]}]
    /\ pc' = [pc EXCEPT ![p][t] = "idle"]
    /\ UNCHANGED <<spacys, lang, tmp, loads, built, calls, requested,
                   afterFail>>

\* return cls._spacys.pop(lang)
ReturnPop(p, t) ==
    /\ pc[p][t] = "ret"
    /\ result' = [result EXCEPT ![p][t] = spacys[p][lang[p][t]]]
    /\ returned' = [returned EXCEPT ![p][lang[p][t]] = @ \cup {spacys[p][lang[p][t]]}]
    /\ failedLast' = [failedLast EXCEPT ![p] = @ \ {lang[p][t]}]
    /\ spacys' = [spacys EXCEPT ![p][lang[p][t]] = None]
    /\ pc' = [pc EXCEPT ![p][t] = "idle"]
    /\ UNCHANGED <<lang, tmp, loads, built, calls, requested, afterFail>>

\* return cls._spacys[lang]
Return(p, t) ==
    /\ pc[p][t] = "ret"
    /\ result' = [result EXCEPT ![p][t] = spacys[p][lang[p][t]]]
    /\ returned' = [returned EXCEPT ![p][lang[p][t]] = @ \cup {spacys[p][lang[p][t]]}]
    /\ failedLast' = [failedLast EXCEPT ![p] = @ \ {lang[p][t]}]
    /\ pc' = [pc EXCEPT ![p][t] = "idle"]
    /\ UNCHANGED <<spacys, lang, tmp, loads, built, calls, requested,
                   afterFail>>

\* A split_sentences_impl that asks for the model of the language of its row.
split_sentences_row_lang(p) ==
    \E k \in Keys : GetCheck(p, MainThread, k)

\* split_sentences_impl(s) begins: english = SpacyMagic.get("en"), called from
\* the worker's task thread. The rest of the function, english(s).sents, only
\* reads the model that get returns.
split_sentences_impl(p) ==
    GetCheck(p, MainThread, "en")

Next ==
    \E p \in Procs, t \in Threads :
        \/ \E k \in Keys : GetCheck(p, t, k)
        \/ LoadOk(p, t)
        \/ LoadFail(p, t)
        \/ Store(p, t)
        \/ Return(p, t)

\* The steps of a worker in which spacy.load never raises.
NextOk ==
    \E p \in Procs, t \in Threads :
        \/ \E k \in Keys : GetCheck(p, t, k)
        \/ LoadOk(p, t)
        \/ Store(p, t)
        \/ Return(p, t)

\* Multi-threaded workers, spacy.load may raise.
Spec == Init /\ [][Next]_vars

\* Multi-threaded workers, spacy.load always returns.
SpecOk == Init /\ [][NextOk]_vars

\* Single-threaded workers, spacy.load may raise.
SpecSeq == InitSeq /\ [][Next]_vars

\* Single-threaded workers, spacy.load always returns.
SpecSeqOk == InitSeq /\ [][NextOk]_vars

\* One multi-threaded worker, spacy.load may raise.
SpecOne == InitOneWorker /\ [][Next]_vars

\* The steps of workers whose only client of SpacyMagic is
\* split_sentences_impl.
NextSplit ==
    \E p \in Procs :
        \/ split_sentences_impl(p)
        \/ LoadOk(p, MainThread)
        \/ LoadFail(p, MainThread)
        \/ Store(p, MainThread)
        \/ Return(p, MainThread)

\* Single-threaded workers that only run split_sentences_impl, one row at a
\* time; spacy.load may raise.
SpecSplit == InitSeq /\ [][NextSplit]_vars

\* A thread that is inside get keeps being scheduled, and an invocation of
\* spacy.load ends, by returning or by raising. Nothing obliges a caller to
\* call get.
Fairness ==
    \A p \in Procs, t \in Threads :
        /\ WF_vars(LoadOk(p, t) \/ LoadFail(p, t))
        /\ WF_vars(Store(p, t))
        /\ WF_vars(Return(p, t))

\* One multi-threaded worker under a fair scheduler.
SpecOneFair == InitOneWorker /\ [][Next]_vars /\ Fairness

TypeOK ==
    /\ \A p \in Procs, t \in Threads :
          pc[p][t] \in {"off", "idle", "load", "store", "ret"}
    /\ calls \in 0..MaxCalls

\* A value that is a loaded model (neither None nor Raised).
IsModel(x) == x # None /\ x # Raised

\* All threads of all workers are outside get.
Quiet == \A p \in Procs, t \in Threads : pc[p][t] \in {"idle", "off"}

(***************************************************************************)
(* C1 (SpecSeqOk): in a worker with one calling thread and a spacy.load    *)
(* that never raises, spacy.load(k) is never invoked before get(k) is      *)
(* called, is invoked once by the first get(k), and is not invoked again   *)
(* by a later get(k): the count of invocations for k is 1 whenever a       *)
(* get(k) has gone past its load, and never more than 1.                   *)
(***************************************************************************)
C1_FirstGetLoadsOnce ==
    \A p \in Procs, k \in Keys :
        /\ loads[p][k] <= 1
        /\ k \notin requested[p] => loads[p][k] = 0
        /\ (k \in requested[p] /\ ~(pc[p][MainThread] = "load" /\ lang[p][MainThread] = k))
              => loads[p][k] = 1

\* Three get("en") in a row in w1 have finished, one load.
C1_Witness ==
    /\ Quiet
    /\ calls = 3
    /\ requested = [p \in Procs |-> IF p = "w1" THEN {"en"} ELSE {}]
    /\ loads["w1"]["en"] = 1
    /\ result["w1"][MainThread] = spacy_load("w1", "en", 1)

(***************************************************************************)
(* C2 (SpecOk): when several threads of a worker call get(k) for a key     *)
(* that is not yet stored, and spacy.load never raises, spacy.load(k) is   *)
(* invoked only once in that worker.                                       *)
(***************************************************************************)
C2_ConcurrentLoadsOnce ==
    \A p \in Procs, k \in Keys :
        \A t1 \in Threads, t2 \in Threads :
            (t1 # t2 /\ lang[p][t1] = k /\ lang[p][t2] = k) => loads[p][k] <= 1

(***************************************************************************)
(* C3 (SpecOk): two threads of a worker whose get(k) both found k not yet  *)
(* stored, and both returned, were given the same object.                  *)
(***************************************************************************)
C3_ConcurrentSameInstance ==
    \A p \in Procs, t1 \in Threads, t2 \in Threads :
        ( /\ pc[p][t1] = "idle" /\ pc[p][t2] = "idle"
          /\ lang[p][t1] = lang[p][t2]
          /\ IsModel(tmp[p][t1]) /\ IsModel(tmp[p][t2])
          /\ IsModel(result[p][t1]) /\ IsModel(result[p][t2]) )
        => result[p][t1] = result[p][t2]

(***************************************************************************)
(* C4 (SpecSeq): in a worker with one calling thread, all the get(k) that  *)
(* returned a value returned one and the same object.                      *)
(***************************************************************************)
C4_SameInstancePerKey ==
    \A p \in Procs, k \in Keys :
        /\ Cardinality(returned[p][k]) <= 1
        /\ (pc[p][MainThread] = "idle" /\ lang[p][MainThread] = k
                /\ IsModel(result[p][MainThread]))
              => returned[p][k] = {result[p][MainThread]}

\* In w1: get("en") raised, then two get("en") returned the second model.
C4_Witness ==
    /\ Quiet
    /\ calls = 3
    /\ requested = [p \in Procs |-> IF p = "w1" THEN {"en"} ELSE {}]
    /\ loads["w1"]["en"] = 2
    /\ afterFail["w1"][MainThread] = FALSE
    /\ returned["w1"]["en"] = {spacy_load("w1", "en", 2)}
    /\ result["w1"][MainThread] = spacy_load("w1", "en", 2)

(***************************************************************************)
(* C5 (SpecSeq): a get(k) whose spacy.load raises gives the exception to   *)
(* its caller and writes nothing: neither its membership test nor the      *)
(* raising load changes the worker's dictionary, and when the call is over *)
(* k is still not in it.                                                   *)
(***************************************************************************)
C5_FailureLeavesMapping ==
    [][ \A p \in Procs, t \in Threads :
          /\ (pc[p][t] = "idle" /\ pc'[p][t] = "load") => spacys'[p] = spacys[p]
          /\ (pc[p][t] = "load" /\ pc'[p][t] = "idle") =>
                /\ result'[p][t] = Raised
                /\ spacys'[p] = spacys[p]
                /\ spacys'[p][lang[p][t]] = None ]_vars

\* get("en") has just raised in w1 while "fr" is stored there.
C5_Witness ==
    /\ pc["w1"][MainThread] = "idle"
    /\ lang["w1"][MainThread] = "en"
    /\ result["w1"][MainThread] = Raised
    /\ spacys["w1"]["en"] = None
    /\ IsModel(spacys["w1"]["fr"])

(***************************************************************************)
(* C6 (SpecSeq): a get(k) that follows a get(k) whose spacy.load raised    *)
(* finds k absent and invokes spacy.load(k) again; if that load returns,   *)
(* the new model is what the dictionary holds for k and what get returns.  *)
(***************************************************************************)
C6_RetryAfterFailure ==
    \A p \in Procs, t \in Threads :
        /\ (pc[p][t] = "idle" /\ lang[p][t] \in failedLast[p])
              => ~Contains(p, lang[p][t])
        /\ afterFail[p][t] =>
              /\ pc[p][t] = "store" => IsModel(tmp[p][t])
              /\ pc[p][t] = "ret" =>
                    IsModel(tmp[p][t]) /\ spacys[p][lang[p][t]] = tmp[p][t]
              /\ (pc[p][t] = "idle" /\ result[p][t] # Raised) =>
                    /\ IsModel(tmp[p][t])
                    /\ result[p][t] = tmp[p][t]
                    /\ spacys[p][lang[p][t]] = tmp[p][t]

\* In w1: get("en") raised, the next get("en") loaded the second model,
\* stored it and returned it.
C6_Witness ==
    /\ afterFail["w1"][MainThread]
    /\ pc["w1"][MainThread] = "idle"
    /\ lang["w1"][MainThread] = "en"
    /\ loads["w1"]["en"] = 2
    /\ built["w1"]["en"] = 1
    /\ result["w1"][MainThread] = spacy_load("w1", "en", 2)
    /\ spacys["w1"]["en"] = spacy_load("w1", "en", 2)

(***************************************************************************)
(* C7, as stated (SpecSeq): for every key k, spacy.load(k) is invoked at   *)
(* most once in a worker, counting the invocations that raise as well as   *)
(* those that return.                                                      *)
(***************************************************************************)
C7_AtMostOneConstruction ==
    \A p \in Procs, k \in Keys :
        built[p][k] + (loads[p][k] - built[p][k]) <= 1

(***************************************************************************)
(* C7, amended (SpecSeq): in a worker with one calling thread, for every   *)
(* key k at most one invocation of spacy.load(k) returns a model, and no   *)
(* invocation is made once one has returned; invocations that raise may be *)
(* repeated any number of times before that.                               *)
(***************************************************************************)
C7_AtMostOneBuilt ==
    [][ \A p \in Procs, k \in Keys :
          /\ built'[p][k] <= 1
          /\ built[p][k] = 1 => loads'[p][k] = loads[p][k] ]_vars

\* In w1 spacy.load("en") raised twice, then returned, and a fourth
\* get("en") was served from the dictionary.
C7_Witness ==
    /\ Quiet
    /\ calls = 4
    /\ requested["w1"] = {"en"}
    /\ loads["w1"]["en"] = 3
    /\ built["w1"]["en"] = 1

(***************************************************************************)
(* C8 (Spec): every step of a get(k1), by any thread in any interleaving,  *)
(* leaves the dictionary entry of every other key k2 as it was; the        *)
(* objects stored and returned for two different keys are different        *)
(* objects, each built by a load of its own.                               *)
(***************************************************************************)
C8_DistinctKeysIndependent ==
    [][ \A p \in Procs :
          /\ \A t \in Threads :
                pc'[p][t] # pc[p][t] =>
                    \A k2 \in Keys \ {lang'[p][t]} : spacys'[p][k2] = spacys[p][k2]
          /\ \A k1 \in Keys : \A k2 \in Keys \ {k1} :
                /\ returned'[p][k1] \cap returned'[p][k2] = {}
                /\ IsModel(spacys'[p][k1]) => spacys'[p][k1] # spacys'[p][k2]
                /\ (returned'[p][k1] # {} /\ returned'[p][k2] # {}) =>
                      (built'[p][k1] >= 1 /\ built'[p][k2] >= 1) ]_vars

\* Two threads of w1 have got "en" and "fr", both stored and returned.
C8_Witness ==
    /\ lang["w1"]["t1"] = "en" /\ lang["w1"]["t2"] = "fr"
    /\ IsModel(spacys["w1"]["en"]) /\ IsModel(spacys["w1"]["fr"])
    /\ returned["w1"]["en"] # {} /\ returned["w1"]["fr"] # {}

\* Invocations of spacy.load in process p, over the keys of S.
RECURSIVE SumLoads(_, _)
SumLoads(p, S) ==
    IF S = {} THEN 0
    ELSE LET k == CHOOSE x \in S : TRUE IN loads[p][k] + SumLoads(p, S \ {k})

(***************************************************************************)
(* C9 (SpecSeqOk): in a worker with one calling thread and a spacy.load    *)
(* that never raises, when the calls made so far have finished the number  *)
(* of invocations of spacy.load equals the number of distinct keys         *)
(* requested, and what get(k) returns is the model loaded for k itself.    *)
(***************************************************************************)
C9_OneLoadPerKeyOwnModel ==
    \A p \in Procs :
        /\ pc[p][MainThread] = "idle" =>
              SumLoads(p, Keys) = Cardinality(requested[p])
        /\ \A k \in Keys : \A x \in returned[p][k] : x = spacy_load(p, k, 1)
        /\ (pc[p][MainThread] = "idle" /\ lang[p][MainThread] \in Keys) =>
              result[p][MainThread] = spacy_load(p, lang[p][MainThread], 1)

\* get("en") then get("fr") in w1: two loads, models tagged "en" and "fr".
C9_Witness ==
    /\ Quiet
    /\ calls = 2
    /\ requested["w1"] = {"en", "fr"}
    /\ lang["w1"][MainThread] = "fr"
    /\ SumLoads("w1", Keys) = 2
    /\ returned["w1"]["en"] = {spacy_load("w1", "en", 1)}
    /\ returned["w1"]["fr"] = {spacy_load("w1", "fr", 1)}

\* The state of key k in process p: Cached when k is in the dictionary,
\* Constructing when it is not and a get(k) is between its membership test
\* and its item assignment, Absent otherwise.
KeyState(p, k) ==
    IF Contains(p, k) THEN "Cached"
    ELSE IF \E t \in Threads : lang[p][t] = k /\ pc[p][t] \in {"load", "store"}
         THEN "Constructing"
         ELSE "Absent"

(***************************************************************************)
(* C10, as stated (SpecOne): the state of a key only moves from Absent to  *)
(* Constructing and from Constructing to Cached.                           *)
(***************************************************************************)
C10_OnlyForward ==
    [][ \A p \in Procs, k \in Keys :
          KeyState(p, k)' # KeyState(p, k) =>
              <<KeyState(p, k), KeyState(p, k)'>> \in
                  {<<"Absent", "Constructing">>, <<"Constructing", "Cached">>} ]_vars

(***************************************************************************)
(* C10, amended (SpecOne): the state of a key moves from Absent to         *)
(* Constructing, from Constructing to Cached, and from Constructing back   *)
(* to Absent when spacy.load raises; a key that is Cached is Cached in     *)
(* every later state, so the set of stored keys only grows.                *)
(***************************************************************************)
C10_CachedIsTerminal ==
    [][ \A p \in Procs, k \in Keys :
          /\ KeyState(p, k)' # KeyState(p, k) =>
                <<KeyState(p, k), KeyState(p, k)'>> \in
                    {<<"Absent", "Constructing">>, <<"Constructing", "Cached">>,
                     <<"Constructing", "Absent">>}
          /\ Contains(p, k) => Contains(p, k)'
          /\ (KeyState(p, k) = "Constructing" /\ KeyState(p, k)' = "Absent") =>
                \E t \in Threads : result'[p][t] = Raised /\ pc[p][t] = "load" ]_vars

\* In w1 spacy.load("en") raised, a later one returned and "en" is stored,
\* and a get("en") served from the dictionary has finished since.
C10_Witness ==
    /\ KeyState("w1", "en") = "Cached"
    /\ loads["w1"]["en"] > built["w1"]["en"]
    /\ calls > loads["w1"]["en"]
    /\ requested = [p \in Procs |-> IF p = "w1" THEN {"en"} ELSE {}]
    /\ Quiet

(***************************************************************************)
(* C11 (SpecOne): in every interleaving, what the dictionary holds for a   *)
(* key, and what get has returned for it, is a model that an invocation of *)
(* spacy.load for that key in that process has already returned; an object *)
(* whose load is still running, or raised, is never visible.               *)
(***************************************************************************)
C11_OnlyCompletedModelsVisible ==
    \A p \in Procs, k \in Keys :
        /\ Contains(p, k) =>
              /\ built[p][k] >= 1
              /\ \E n \in 1..loads[p][k] : spacys[p][k] = spacy_load(p, k, n)
        /\ \A x \in returned[p][k] :
              /\ built[p][k] >= 1
              /\ \E n \in 1..loads[p][k] : x = spacy_load(p, k, n)
        /\ \A t \in Threads :
              (pc[p][t] = "load" /\ lang[p][t] = k /\ built[p][k] = 0)
                  => (~Contains(p, k) /\ returned[p][k] = {})

\* In w1, t2 has been given the stored "en" model while spacy.load("fr")
\* of t1 is still running and "fr" is not visible.
C11_Witness ==
    /\ pc["w1"]["t1"] = "load" /\ lang["w1"]["t1"] = "fr"
    /\ ~Contains("w1", "fr")
    /\ pc["w1"]["t2"] = "idle" /\ lang["w1"]["t2"] = "en"
    /\ IsModel(result["w1"]["t2"])
    /\ spacys["w1"]["en"] = result["w1"]["t2"]

(***************************************************************************)
(* C12 (Spec): each worker process has its own dictionary: a key that a    *)
(* process has not requested is absent from its dictionary whatever the    *)
(* other processes have stored, the number of loads of a process is        *)
(* bounded by its own requests only, and the model a process holds or      *)
(* returns for k is one it built itself.                                   *)
(***************************************************************************)
C12_ProcessesIndependent ==
    \A p \in Procs, k \in Keys :
        /\ k \notin requested[p] => (~Contains(p, k) /\ loads[p][k] = 0)
        /\ Contains(p, k) => (spacys[p][k].proc = p /\ built[p][k] >= 1)
        /\ \A x \in returned[p][k] : x.proc = p
        /\ \A q \in Procs \ {p} :
              Contains(q, k) => spacys[p][k] # spacys[q][k]

\* w1 and w2 each hold an "en" model of their own; w1 also holds "fr",
\* which w2 never requested and does not hold.
C12_Witness ==
    /\ spacys["w1"]["en"] = spacy_load("w1", "en", 1)
    /\ spacys["w2"]["en"] = spacy_load("w2", "en", 1)
    /\ Contains("w1", "fr")
    /\ requested["w2"] = {"en"}
    /\ ~Contains("w2", "fr")

(***************************************************************************)
(* C13 (Spec): entries are created lazily: a process in which get has not  *)
(* been called holds no entry, and for every key k spacy.load(k) has not   *)
(* been invoked, and k is not stored, as long as get(k) has not been       *)
(* called in that process.                                                 *)
(***************************************************************************)
C13_LazyCreation ==
    \A p \in Procs :
        /\ requested[p] = {} =>
              \A k \in Keys : spacys[p][k] = None /\ loads[p][k] = 0 /\ built[p][k] = 0
        /\ \A k \in Keys \ requested[p] :
              /\ loads[p][k] = 0
              /\ spacys[p][k] = None
              /\ \A t \in Threads : tmp[p][t].tag # k

\* w1 has loaded and stored "en" on request; "fr" was never requested there
\* and w2 has not been used at all.
C13_Witness ==
    /\ requested = [p \in Procs |-> IF p = "w1" THEN {"en"} ELSE {}]
    /\ loads["w1"]["en"] = 1
    /\ Contains("w1", "en")
    /\ loads["w1"]["fr"] = 0
    /\ Quiet

(***************************************************************************)
(* C14 (SpecOk): get is mutually exclusive within a process: no two        *)
(* threads of a process are at the same time between the membership test   *)
(* and the item assignment of a get for the same key.                      *)
(***************************************************************************)
C14_MutualExclusion ==
    \A p \in Procs, t1 \in Threads : \A t2 \in Threads \ {t1} :
        ~ ( /\ pc[p][t1] \in {"load", "store"}
            /\ pc[p][t2] \in {"load", "store"}
            /\ lang[p][t1] = lang[p][t2] )

(***************************************************************************)
(* C15 (SpecOk): a stored entry is never replaced: once the dictionary of  *)
(* a process holds r for k, every step leaves r there.                     *)
(***************************************************************************)
C15_EntryNeverReplaced ==
    [][ \A p \in Procs, k \in Keys :
          Contains(p, k) => spacys'[p][k] = spacys[p][k] ]_vars

(***************************************************************************)
(* C16 (SpecOne): a get(k) that finds k stored is a pure read: neither its *)
(* membership test nor its return statement changes the dictionary, no     *)
(* spacy.load is invoked for it, and it returns the stored model.          *)
(***************************************************************************)
C16_HitIsPureRead ==
    [][ \A p \in Procs, t \in Threads :
          /\ (pc[p][t] = "idle" /\ pc'[p][t] = "ret") =>
                /\ spacys'[p] = spacys[p]
                /\ loads'[p] = loads[p]
                /\ Contains(p, lang'[p][t])
          /\ (pc[p][t] = "ret" /\ tmp[p][t] = None /\ pc'[p][t] = "idle") =>
                /\ spacys'[p] = spacys[p]
                /\ loads'[p] = loads[p]
                /\ IsModel(result'[p][t])
                /\ result'[p][t] = spacys[p][lang[p][t]] ]_vars

\* In w1, t2 has finished a get("en") that was served from the dictionary,
\* which holds "en" and "fr".
C16_Witness ==
    /\ pc["w1"]["t2"] = "idle" /\ lang["w1"]["t2"] = "en"
    /\ tmp["w1"]["t2"] = None
    /\ IsModel(result["w1"]["t2"])
    /\ result["w1"]["t2"] = spacys["w1"]["en"]
    /\ Contains("w1", "fr")

(***************************************************************************)
(* C17 (SpecOne): on a miss get(k) stores the model spacy.load returned to *)
(* it, and whenever get(k) returns normally k is in the dictionary at that *)
(* moment and the value returned is the one the dictionary holds for k.    *)
(***************************************************************************)
C17_ReturnsStoredValue ==
    [][ \A p \in Procs, t \in Threads :
          /\ (pc[p][t] = "store" /\ pc'[p][t] = "ret") =>
                /\ IsModel(tmp[p][t])
                /\ spacys'[p][lang[p][t]] = tmp[p][t]
          /\ (pc[p][t] = "ret" /\ pc'[p][t] = "idle") =>
                /\ Contains(p, lang[p][t])
                /\ result'[p][t] = spacys'[p][lang[p][t]]
                /\ result'[p][t] \in returned'[p][lang[p][t]] ]_vars

\* In w1 both threads missed "en" and loaded it; t1 stored and returned the
\* first model, then t2 stored the second one, which the dictionary holds.
C17_Witness ==
    /\ pc["w1"]["t1"] = "idle" /\ lang["w1"]["t1"] = "en"
    /\ result["w1"]["t1"] = spacy_load("w1", "en", 1)
    /\ pc["w1"]["t2"] = "ret" /\ lang["w1"]["t2"] = "en"
    /\ tmp["w1"]["t2"] = spacy_load("w1", "en", 2)
    /\ spacys["w1"]["en"] = spacy_load("w1", "en", 2)

(***************************************************************************)
(* C18 (SpecOneFair): if every invocation of spacy.load ends and the       *)
(* threads are scheduled fairly, every get that a thread has started       *)
(* eventually ends, with a model returned or with the exception of         *)
(* spacy.load; no thread waits for another.                                *)
(***************************************************************************)
C18_EveryGetFinishes ==
    \A p \in Procs, t \in Threads :
        (pc[p][t] \in {"load", "store", "ret"})
            ~> (pc[p][t] = "idle" /\ (IsModel(result[p][t]) \/ result[p][t] = Raised))

\* Both threads of w1 are inside a get("en") that missed, both with a
\* loaded model waiting to be stored.
C18_Witness ==
    /\ pc["w1"]["t1"] = "store" /\ pc["w1"]["t2"] = "store"
    /\ lang["w1"]["t1"] = "en" /\ lang["w1"]["t2"] = "en"
    /\ IsModel(tmp["w1"]["t1"]) /\ IsModel(tmp["w1"]["t2"])

(***************************************************************************)
(* C19 (SpecOk): the dictionary is shared by the threads of a process:     *)
(* when a get(k) of one thread has returned a model and a get(k) of        *)
(* another thread then begins, the later call finds k stored, so it does   *)
(* not go to spacy.load, and the model it finds stored, which is the one   *)
(* it will return, is the model the earlier call returned.                 *)
(***************************************************************************)
C19_LaterCallSharesInstance ==
    [][ \A p \in Procs, t1 \in Threads, k \in Keys : \A t2 \in Threads \ {t1} :
          ( /\ pc[p][t1] = "idle" /\ lang[p][t1] = k /\ IsModel(result[p][t1])
            /\ pc[p][t2] = "idle" /\ pc'[p][t2] # "idle" /\ lang'[p][t2] = k )
          => ( /\ pc'[p][t2] = "ret"
               /\ loads'[p][k] = loads[p][k]
               /\ spacys[p][k] = result[p][t1] ) ]_vars

(***************************************************************************)
(* C20 (SpecSplit): in a worker whose only client of SpacyMagic is         *)
(* split_sentences_impl, run one row at a time, the dictionary never holds *)
(* a key other than "en", no other key is ever requested or loaded, and    *)
(* the "en" model is loaded at most once however many rows are processed:  *)
(* at most one spacy.load("en") returns, and none is invoked after it.     *)
(***************************************************************************)
C20_OnlyEnglishLoadedOnce ==
    \A p \in Procs :
        /\ requested[p] \subseteq {"en"}
        /\ \A k \in Keys \ {"en"} : ~Contains(p, k) /\ loads[p][k] = 0
        /\ built[p]["en"] <= 1
        /\ Contains(p, "en") => spacys[p]["en"] = spacy_load(p, "en", loads[p]["en"])
        /\ (pc[p][MainThread] = "idle" /\ IsModel(result[p][MainThread]))
              => result[p][MainThread] = spacys[p]["en"]

\* Worker w1 has processed four rows with one successful load of "en".
C20_Witness ==
    /\ Quiet
    /\ calls = 4
    /\ requested = [p \in Procs |-> IF p = "w1" THEN {"en"} ELSE {}]
    /\ built["w1"]["en"] = 1
    /\ loads["w1"]["en"] = 1
    /\ result["w1"][MainThread] = spacy_load("w1", "en", 1)

====
